---- MODULE Spec2Model ----
(***************************************************************************)
(* Local passcode settings screens of Telegram Desktop                     *)
(* (Telegram/SourceFiles/settings/settings_local_passcode.cpp):            *)
(* LocalPasscodeEnter in its three enter types (Create, Check, Change),    *)
(* LocalPasscodeManage, the auto-close timer and the confirmation and      *)
(* auto-lock boxes opened from the Manage screen.                          *)
(*                                                                         *)
(* One section is alive at a time.  Every handler of the file is one       *)
(* action.  `last` names the handler that ran in the most recent step and  *)
(* its inputs, `log` lists, in order, the calls it made to the external    *)
(* collaborators and the events it fired.                                  *)
(***************************************************************************)
EXTENDS Integers, Sequences, FiniteSets

VARIABLES
    screen,          \* section alive: enterType() of LocalPasscodeEnter, or "Manage"
    newText,         \* newPasscode->text()
    reenterText,     \* reenterPasscode->text() (<<>> when there is no such field)
    focus,           \* which input has keyboard focus: "none", "new", "reenter"
    errorShown,      \* visibility of the error label
    errorText,       \* text of the error label
    passcode,        \* bytes held by domain.local() (external storage)
    badTries,        \* cPasscodeBadTries()
    lastTry,         \* cPasscodeLastTry()
    now,             \* crl::now(), milliseconds
    lastNonIdleTime, \* Core::App().lastNonIdleTime(), milliseconds
    timerOn,         \* a base::Timer lives in the section's lifetime
    timerNext,       \* time of its next tick
    confirmBox,      \* the disable-passcode confirmation box is shown
    autoLockBox,     \* an AutoLockBox opened from the Manage screen is shown
    autoLock,        \* Core::App().settings().autoLock(), seconds
    autolockLabel,   \* value of the autolockLabel producer shown on the Manage screen
    wrongSince,      \* history: wrong Check attempts since the last reset
    last,            \* history: handler of the most recent step and its inputs
    log              \* history: calls and events of the most recent step, in order

vars == << screen, newText, reenterText, focus, errorShown, errorText,
           passcode, badTries, lastTry, now, lastNonIdleTime, timerOn,
           timerNext, confirmBox, autoLockBox, autoLock, autolockLabel,
           wrongSince, last, log >>

----------------------------------------------------------------------------
(* Bounds of the model *)

\* longest text typed into an input field
MaxLen == 1
\* cap of the bad-try counter
MaxBadTries == 2
\* clock ticks the interactive specification lets pass
MaxClock == 1
\* clock ticks the timer specification lets pass
MaxIdleClock == 22

----------------------------------------------------------------------------
(* Program constants *)

kTimerCheck == 60000
kAutoCloseTimeout == 600000

\* granularity of the modelled clock: half a timer period
ClockTick == kTimerCheck \div 2

\* UTF-16 code units the user can type: 'a' and e-acute
Chars == {97, 233}

RECURSIVE SeqsUpTo(_, _)
SeqsUpTo(S, n) ==
    IF n = 0 THEN {<<>>}
    ELSE LET shorter == SeqsUpTo(S, n - 1)
         IN  shorter \cup {Append(s, c) : s \in shorter, c \in S}

Texts == SeqsUpTo(Chars, MaxLen)

EnterScreens == {"Create", "Check", "Change"}
Screens == EnterScreens \cup {"Manage"}

\* values the AutoLockBox can store, seconds
AutoLockValues == {59, 60, 3600, 45000}

----------------------------------------------------------------------------
(* QString::toUtf8 for code units below 0x800 *)

toUtf8Char(c) ==
    IF c < 128 THEN << c >>
    ELSE << 192 + (c \div 64), 128 + (c % 64) >>

RECURSIVE toUtf8(_)
toUtf8(s) ==
    IF s = <<>> THEN <<>>
    ELSE toUtf8Char(Head(s)) \o toUtf8(Tail(s))

(* QString::number for a non-negative int: decimal digits *)
RECURSIVE QStringNumber(_)
QStringNumber(n) ==
    IF n < 10 THEN << n >>
    ELSE Append(QStringNumber(n \div 10), n % 10)

----------------------------------------------------------------------------
(* External storage: Storage::Domain::setPasscode / checkPasscode *)

LocalSetPasscode(bytes) == bytes

LocalCheckPasscode(bytes) == bytes = passcode

----------------------------------------------------------------------------
(* Log entries *)

Ev(e, a) == [ev |-> e, arg |-> a]
E(e) == Ev(e, <<>>)

Fired(l, e) == \E i \in 1..Len(l) : l[i].ev = e
Count(l, e) == Cardinality({i \in 1..Len(l) : l[i].ev = e})
\* every e of l comes after some d of l
After(l, d, e) ==
    \A i \in 1..Len(l) : l[i].ev = e => \E j \in 1..(i - 1) : l[j].ev = d
ArgsOf(l, e) == {l[i].arg : i \in {j \in 1..Len(l) : l[j].ev = e}}

Handler(op, canTry, field) == [op |-> op, canTry |-> canTry, field |-> field]

----------------------------------------------------------------------------
(* Widgets and globals a handler of the Enter screen can change *)

Widgets ==
    [focus |-> focus, errorShown |-> errorShown, errorText |-> errorText,
     passcode |-> passcode, badTries |-> badTries, lastTry |-> lastTry,
     events |-> <<>>]

\* SetPasscode(controller, pass)
SetPasscode(w, pass) ==
    [w EXCEPT !.badTries = 0,
              !.passcode = LocalSetPasscode(toUtf8(pass)),
              !.events = @ \o << E("cSetPasscodeBadTries(0)"),
                                 Ev("setPasscode", toUtf8(pass)),
                                 E("localPasscodeChanged") >>]

hasReenter == screen # "Check"

ErrorInput_AlwaysNew == "new"

\* the input the error label is attached to: addError(isCheck ? newPasscode : reenterPasscode)
ErrorInput == IF screen = "Check" THEN "new" ELSE "reenter"

\* newText.isEmpty()
EmptyNew(w) ==
    [w EXCEPT !.focus = "new",
              !.events = @ \o << E("newPasscode.showError") >>]

\* reenterText.isEmpty()
EmptyReenter(w) ==
    [w EXCEPT !.focus = "reenter",
              !.events = @ \o << E("reenterPasscode.showError") >>]

\* newText != reenterText
Differ(w) ==
    [w EXCEPT !.focus = "reenter",
              !.errorShown = TRUE,
              !.errorText = "lng_passcode_differ",
              !.events = @ \o << E("reenterPasscode.showError"),
                                 E("reenterPasscode.selectAll") >>]

\* isChange and checkPasscode(newText) is true
IsSame(w) ==
    [w EXCEPT !.focus = "new",
              !.errorShown = TRUE,
              !.errorText = "lng_passcode_is_same",
              !.events = @ \o << E("newPasscode.showError"),
                                 E("newPasscode.selectAll") >>]

Accept_Swapped(w) ==
    LET set == SetPasscode(w, newText)
    IN  [set EXCEPT !.events =
            @ \o << IF screen = "Create"
                    THEN E("showBack")
                    ELSE E("showOther(LocalPasscodeManage)") >>]

\* SetPasscode and the navigation event of the mode
Accept(w) ==
    LET set == SetPasscode(w, newText)
    IN  [set EXCEPT !.events =
            @ \o << IF screen = "Create"
                    THEN E("showOther(LocalPasscodeManage)")
                    ELSE E("showBack") >>]

\* domain.local().checkPasscode(newText.toUtf8()), logged
Checked(w) ==
    [w EXCEPT !.events = @ \o << Ev("checkPasscode", toUtf8(newText)) >>]

CreateChangeClicked_NoSameCheck(w) ==
    IF newText = <<>> THEN EmptyNew(w)
    ELSE IF reenterText = <<>> THEN EmptyReenter(w)
    ELSE IF newText # reenterText THEN Differ(w)
    ELSE Accept(w)

\* button clicked callback, isCreate || isChange branch
CreateChangeClicked(w) ==
    IF newText = <<>> THEN EmptyNew(w)
    ELSE IF reenterText = <<>> THEN EmptyReenter(w)
    ELSE IF newText # reenterText THEN Differ(w)
    ELSE IF screen = "Change"
    THEN IF LocalCheckPasscode(toUtf8(newText))
         THEN IsSame(Checked(w))
         ELSE Accept(Checked(w))
    ELSE Accept(w)

Flood_Unlabelled(w) ==
    [w EXCEPT !.focus = "new",
              !.events = @ \o << E("newPasscode.showError") >>]

\* !passcodeCanTry()
Flood(w) ==
    [w EXCEPT !.focus = "new",
              !.errorShown = TRUE,
              !.errorText = "lng_flood_error",
              !.events = @ \o << E("newPasscode.showError") >>]

CheckSucceeded_KeepsBadTries(w) ==
    [w EXCEPT !.events = @ \o << E("showOther(LocalPasscodeManage)") >>]

\* checkPasscode(newText) is true
CheckSucceeded(w) ==
    [w EXCEPT !.badTries = 0,
              !.events = @ \o << E("cSetPasscodeBadTries(0)"),
                                 E("showOther(LocalPasscodeManage)") >>]

\* checkPasscode(newText) is false
CheckFailed(w) ==
    [w EXCEPT !.badTries = badTries + 1,
              !.lastTry = now,
              !.focus = "new",
              !.errorShown = TRUE,
              !.errorText = "lng_passcode_wrong",
              !.events = @ \o << E("newPasscode.selectAll"),
                                 E("newPasscode.showError") >>]

CheckClicked_CheckBeforeCanTry(w, canTry) ==
    IF LocalCheckPasscode(toUtf8(newText)) THEN CheckSucceeded(Checked(w))
    ELSE IF ~canTry THEN Flood(Checked(w))
    ELSE CheckFailed(Checked(w))

\* button clicked callback, isCheck branch; canTry is the value of passcodeCanTry()
CheckClicked(w, canTry) ==
    IF ~canTry THEN Flood(w)
    ELSE IF LocalCheckPasscode(toUtf8(newText)) THEN CheckSucceeded(Checked(w))
    ELSE CheckFailed(Checked(w))

\* button->setClickedCallback
ClickedCallback(w, canTry) ==
    IF screen \in {"Create", "Change"} THEN CreateChangeClicked(w)
    ELSE IF screen = "Check" THEN CheckClicked(w, canTry)
    ELSE w

\* wrong Check attempts since the last successful check or SetPasscode call,
\* counted from the calls made, independently of the bad-try counter
WrongSinceAfter(events) ==
    IF \E i \in 1..Len(events) : events[i].ev = "setPasscode" THEN 0
    ELSE IF screen = "Check"
            /\ \E i \in 1..Len(events) : events[i].ev = "checkPasscode"
         THEN IF LocalCheckPasscode(toUtf8(newText)) THEN 0 ELSE wrongSince + 1
    ELSE wrongSince

\* the state after a handler of the Enter screen left the widgets as w
Apply(w, h) ==
    /\ w.badTries <= MaxBadTries
    /\ focus' = w.focus
    /\ errorShown' = w.errorShown
    /\ errorText' = w.errorText
    /\ passcode' = w.passcode
    /\ badTries' = w.badTries
    /\ lastTry' = w.lastTry
    /\ log' = w.events
    /\ wrongSince' = WrongSinceAfter(w.events)
    /\ last' = h

----------------------------------------------------------------------------
(* The auto-lock label: rpl::map in LocalPasscodeManage::setupContent *)

AutolockLabel_TotalMinutes(autolock) ==
    LET hours == autolock \div 3600
        minutes == autolock \div 60
    IN  IF hours # 0 /\ minutes # 0
        THEN [form |-> "lng_passcode_autolock_hours_minutes",
              hours |-> QStringNumber(hours), minutes |-> QStringNumber(minutes)]
        ELSE IF minutes # 0
        THEN [form |-> "lng_minutes", hours |-> <<>>, minutes |-> << minutes >>]
        ELSE [form |-> "lng_hours", hours |-> << hours >>, minutes |-> <<>>]

AutolockLabel(autolock) ==
    LET hours == autolock \div 3600
        minutes == (autolock - (hours * 3600)) \div 60
    IN  IF hours # 0 /\ minutes # 0
        THEN [form |-> "lng_passcode_autolock_hours_minutes",
              hours |-> QStringNumber(hours), minutes |-> QStringNumber(minutes)]
        ELSE IF minutes # 0
        THEN [form |-> "lng_minutes", hours |-> <<>>, minutes |-> << minutes >>]
        ELSE [form |-> "lng_hours", hours |-> << hours >>, minutes |-> <<>>]

NoLabel == [form |-> "", hours |-> <<>>, minutes |-> <<>>]

----------------------------------------------------------------------------
(* The auto-close timer: SetupAutoCloseTimer *)

\* the sections whose setupContent calls SetupAutoCloseTimer
HasAutoCloseTimer(s) == s \in {"Change", "Manage"}

AutoCloseDue_Strict(idle) == idle > kAutoCloseTimeout

\* the test of the timer callback
AutoCloseDue(idle) == idle >= kAutoCloseTimeout

----------------------------------------------------------------------------
(* Construction of a section: constructor and setupContent *)

Built(s) ==
    /\ screen' = s
    /\ newText' = <<>>
    /\ reenterText' = <<>>
    /\ focus' = "none"
    /\ errorShown' = FALSE
    /\ errorText' = "lng_language_name"
    /\ timerOn' = HasAutoCloseTimer(s)
    /\ timerNext' = IF HasAutoCloseTimer(s) THEN now + kTimerCheck ELSE 0
    /\ confirmBox' = FALSE
    /\ autoLockBox' = FALSE
    /\ autolockLabel' = IF s = "Manage" THEN AutolockLabel(autoLock) ELSE NoLabel

Init ==
    /\ screen \in Screens
    /\ newText = <<>>
    /\ reenterText = <<>>
    /\ focus = "none"
    /\ errorShown = FALSE
    /\ errorText = "lng_language_name"
    /\ passcode \in {toUtf8(t) : t \in Texts}
    /\ badTries = 0
    /\ lastTry = 0
    /\ now = 0
    /\ lastNonIdleTime = 0
    /\ timerOn = HasAutoCloseTimer(screen)
    /\ timerNext = IF HasAutoCloseTimer(screen) THEN kTimerCheck ELSE 0
    /\ confirmBox = FALSE
    /\ autoLockBox = FALSE
    /\ autoLock = 3600
    /\ autolockLabel = IF screen = "Manage" THEN AutolockLabel(autoLock) ELSE NoLabel
    /\ wrongSince = 0
    /\ last = Handler("setupContent", TRUE, "none")
    /\ log = <<>>

----------------------------------------------------------------------------
(* Steps *)

Quiet == Handler("", TRUE, "none")

enterVars == << newText, reenterText, focus, errorShown, errorText >>
globalVars == << passcode, badTries, lastTry, wrongSince >>
clockVars == << now, lastNonIdleTime >>
sectionVars == << screen, timerOn, timerNext, confirmBox, autoLockBox,
                  autolockLabel >>

Fields == IF hasReenter THEN {"new", "reenter"} ELSE {"new"}

NoBox == ~confirmBox /\ ~autoLockBox

\* the value passcodeCanTry() returns, read in Check mode only
CanTryValues == IF screen = "Check" THEN BOOLEAN ELSE {TRUE}

\* the outer controller shows section s: constructor and setupContent
ShowSection(s) ==
    /\ Built(s)
    /\ last' = Handler("setupContent", TRUE, "none")
    /\ log' = <<>>
    /\ UNCHANGED << globalVars, clockVars, autoLock >>

\* _setInnerFocus handler
SetInnerFocus ==
    /\ screen \in EnterScreens
    /\ focus' = IF newText = <<>> THEN "new"
                ELSE IF hasReenter /\ reenterText = <<>> THEN "reenter"
                ELSE "new"
    /\ last' = Quiet
    /\ log' = <<>>
    /\ UNCHANGED << newText, reenterText, errorShown, errorText, globalVars,
                    clockVars, sectionVars, autoLock >>

\* the user moves keyboard focus to an input field
FocusField(f) ==
    /\ screen \in EnterScreens
    /\ f \in Fields
    /\ focus # f
    /\ focus' = f
    /\ last' = Quiet
    /\ log' = <<>>
    /\ UNCHANGED << newText, reenterText, errorShown, errorText, globalVars,
                    clockVars, sectionVars, autoLock >>

\* the user edits the focused field; MaskedInputField::changed hides the
\* error label when the field is the one the label is attached to
SetText(f, t) ==
    /\ screen \in EnterScreens
    /\ f \in Fields
    /\ focus = f
    /\ IF f = "new"
       THEN newText # t /\ newText' = t /\ UNCHANGED reenterText
       ELSE reenterText # t /\ reenterText' = t /\ UNCHANGED newText
    /\ errorShown' = IF f = ErrorInput THEN FALSE ELSE errorShown
    /\ last' = Quiet
    /\ log' = <<>>
    /\ UNCHANGED << focus, errorText, globalVars, clockVars, sectionVars,
                    autoLock >>

\* the user clicks the button
Click(canTry) ==
    /\ screen \in EnterScreens
    /\ canTry \in CanTryValues
    /\ Apply(ClickedCallback(Widgets, canTry), Handler("clicked", canTry, "none"))
    /\ UNCHANGED << newText, reenterText, clockVars, sectionVars, autoLock >>

SubmitClicks_FromNew == ~hasReenter \/ focus = "new"

\* the test of the submit lambda
SubmitClicks == ~hasReenter \/ focus = "reenter"

\* MaskedInputField::submitted of the focused field
Submit(f, canTry) ==
    /\ screen \in EnterScreens
    /\ f \in Fields
    /\ focus = f
    /\ canTry \in CanTryValues
    /\ IF SubmitClicks
       THEN Apply(ClickedCallback(
                      [Widgets EXCEPT !.events = << E("button.clicked") >>],
                      canTry),
                  Handler("submitted", canTry, f))
       ELSE Apply([Widgets EXCEPT !.focus = "reenter"],
                  Handler("submitted", canTry, f))
    /\ UNCHANGED << newText, reenterText, clockVars, sectionVars, autoLock >>

\* Manage screen: the change-passcode button
ChangeClicked ==
    /\ screen = "Manage"
    /\ NoBox
    /\ last' = Handler("changeClicked", TRUE, "none")
    /\ log' = << E("showOther(LocalPasscodeChange)") >>
    /\ UNCHANGED << enterVars, globalVars, clockVars, sectionVars, autoLock >>

\* Manage screen: the disable button of createPinnedToBottom
DisableClicked ==
    /\ screen = "Manage"
    /\ NoBox
    /\ confirmBox' = TRUE
    /\ last' = Handler("disableClicked", TRUE, "none")
    /\ log' = << E("show(ConfirmBox)") >>
    /\ UNCHANGED << enterVars, globalVars, clockVars, screen, timerOn,
                    timerNext, autoLockBox, autolockLabel, autoLock >>

DisableConfirmed_BackBeforeClose(w) ==
    LET set == SetPasscode(w, <<>>)
    IN  [set EXCEPT !.events = @ \o << E("showBack"), E("close") >>]

\* the confirmed callback of the confirmation box
DisableConfirmed(w) ==
    LET set == SetPasscode(w, <<>>)
    IN  [set EXCEPT !.events = @ \o << E("close"), E("showBack") >>]

ConfirmDisable ==
    /\ confirmBox
    /\ confirmBox' = FALSE
    /\ Apply(DisableConfirmed(Widgets), Handler("confirmed", TRUE, "none"))
    /\ UNCHANGED << newText, reenterText, clockVars, screen, timerOn,
                    timerNext, autoLockBox, autolockLabel, autoLock >>

\* the confirmation box is cancelled or closed
DismissConfirm ==
    /\ confirmBox
    /\ confirmBox' = FALSE
    /\ last' = Handler("dismissed", TRUE, "none")
    /\ log' = <<>>
    /\ UNCHANGED << enterVars, globalVars, clockVars, screen, timerOn,
                    timerNext, autoLockBox, autolockLabel, autoLock >>

\* Manage screen: the auto-lock button shows an AutoLockBox
AutoLockClicked ==
    /\ screen = "Manage"
    /\ NoBox
    /\ autoLockBox' = TRUE
    /\ last' = Handler("autoLockClicked", TRUE, "none")
    /\ log' = << E("show(AutoLockBox)") >>
    /\ UNCHANGED << enterVars, globalVars, clockVars, screen, timerOn,
                    timerNext, confirmBox, autolockLabel, autoLock >>

\* the AutoLockBox stores a new timeout
SetAutoLock(v) ==
    /\ autoLockBox
    /\ autoLock # v
    /\ autoLock' = v
    /\ last' = Quiet
    /\ log' = <<>>
    /\ UNCHANGED << enterVars, globalVars, clockVars, sectionVars >>

\* box->boxClosing() reaches autoLockBoxClosing: the label is mapped again
AutoLockBoxClosing ==
    /\ autoLockBox
    /\ autoLockBox' = FALSE
    /\ autolockLabel' = AutolockLabel(autoLock)
    /\ last' = Handler("autoLockBoxClosing", TRUE, "none")
    /\ log' = <<>>
    /\ UNCHANGED << enterVars, globalVars, clockVars, screen, timerOn,
                    timerNext, confirmBox, autoLock >>

\* the clock advances; a running timer ticks when its period has passed
AdvanceTime(limit) ==
    /\ now < limit * ClockTick
    /\ timerOn => now + ClockTick <= timerNext
    /\ now' = now + ClockTick
    /\ last' = Quiet
    /\ log' = <<>>
    /\ UNCHANGED << enterVars, globalVars, lastNonIdleTime, sectionVars,
                    autoLock >>

\* user input is seen by the application
Activity ==
    /\ lastNonIdleTime # now
    /\ lastNonIdleTime' = now
    /\ last' = Quiet
    /\ log' = <<>>
    /\ UNCHANGED << enterVars, globalVars, now, sectionVars, autoLock >>

\* the timer callback of SetupAutoCloseTimer
TimerCallback ==
    LET idle == now - lastNonIdleTime
    IN  IF AutoCloseDue(idle) THEN << E("showBack") >> ELSE <<>>

TimerTick ==
    /\ timerOn
    /\ now = timerNext
    /\ timerNext' = now + kTimerCheck
    /\ last' = Handler("timer", TRUE, "none")
    /\ log' = TimerCallback
    /\ UNCHANGED << enterVars, globalVars, clockVars, screen, timerOn,
                    confirmBox, autoLockBox, autolockLabel, autoLock >>

----------------------------------------------------------------------------
(* Specifications *)

\* The screens in use: typing, clicks, submits and the confirmation box, over
\* the first MaxClock clock ticks.  The timer callback, the idle tracking and
\* the AutoLockBox write only timerNext, lastNonIdleTime, autoLock,
\* autolockLabel and the log, which no handler of this specification reads;
\* they are exercised by SpecAuto below.
Next ==
    \/ \E s \in Screens : ShowSection(s)
    \/ SetInnerFocus
    \/ \E f \in {"new", "reenter"} : FocusField(f)
    \/ \E f \in {"new", "reenter"}, t \in Texts : SetText(f, t)
    \/ \E c \in BOOLEAN : Click(c)
    \/ \E f \in {"new", "reenter"}, c \in BOOLEAN : Submit(f, c)
    \/ ChangeClicked
    \/ DisableClicked
    \/ ConfirmDisable
    \/ DismissConfirm
    \/ AdvanceTime(MaxClock)

Spec == Init /\ [][Next]_vars

\* The idle screens: the auto-close timer and the auto-lock label, over
\* MaxIdleClock clock ticks, long enough for the idle time to pass
\* kAutoCloseTimeout.  Nothing is typed.
NextAuto ==
    \/ \E s \in Screens : ShowSection(s)
    \/ AutoLockClicked
    \/ \E v \in AutoLockValues : SetAutoLock(v)
    \/ AutoLockBoxClosing
    \/ AdvanceTime(MaxIdleClock)
    \/ Activity
    \/ TimerTick

InitAuto == Init /\ passcode = <<>>

SpecAuto == InitAuto /\ [][NextAuto]_vars

----------------------------------------------------------------------------
(* Vocabulary of the properties *)

\* decoder of UTF-8 sequences of one and two bytes
RECURSIVE fromUtf8(_)
fromUtf8(b) ==
    IF b = <<>> THEN <<>>
    ELSE IF b[1] < 128 THEN << b[1] >> \o fromUtf8(Tail(b))
    ELSE << (b[1] - 192) * 64 + (b[2] - 128) >> \o fromUtf8(SubSeq(b, 3, Len(b)))

\* the button's clicked callback ran: a click, or a submit that clicked
IsClick(h, l) ==
    \/ h.op = "clicked"
    \/ h.op = "submitted" /\ Fired(l, "button.clicked")

NavEvents == {"showOther(LocalPasscodeManage)", "showOther(LocalPasscodeChange)",
              "showBack"}
Navigated(l) == \E e \in NavEvents : Fired(l, e)

\* the stored passcode is the text t
StoredIs(t) == fromUtf8(passcode) = t

\* the conditions under which Create and Change accept the two texts
Accepted ==
    /\ newText # <<>>
    /\ reenterText # <<>>
    /\ newText = reenterText
    /\ screen = "Change" => ~StoredIs(newText)

----------------------------------------------------------------------------
\* what a step must satisfy for C1
C1_Step ==
    (screen \in {"Create", "Change"} /\ IsClick(last', log')) =>
        IF Accepted
        THEN /\ Count(log', "setPasscode") = 1
             /\ \A a \in ArgsOf(log', "setPasscode") : fromUtf8(a) = newText
             /\ fromUtf8(passcode') = newText
        ELSE /\ ~Fired(log', "setPasscode")
             /\ passcode' = passcode
             /\ badTries' = badTries
             /\ ~Navigated(log')

(* C1: in Create and Change mode a click calls setPasscode, once and with the
   new-passcode text, exactly when both fields are non-empty and equal and, in
   Change mode, checkPasscode(new text) is false; any other click calls no
   setPasscode, leaves the stored passcode and the bad-try count as they were
   and fires no navigation event. *)
C1_SetPasscodeIffAccepted == [][C1_Step]_vars

\* a Change click has replaced a different stored passcode by a two-byte text
C1_Witness ==
    /\ screen = "Change"
    /\ last.op = "clicked"
    /\ Fired(log, "setPasscode")
    /\ newText = << 233 >>
    /\ passcode = << 195, 169 >>

\* the reasons for which a click is rejected, read after the click
EmptyRejected ==
    /\ screen \in {"Create", "Change"}
    /\ newText = <<>> \/ reenterText = <<>>

DifferRejected ==
    /\ screen \in {"Create", "Change"}
    /\ newText # <<>>
    /\ reenterText # <<>>
    /\ newText # reenterText

FloodRejected == screen = "Check" /\ ~last.canTry

WrongRejected == screen = "Check" /\ last.canTry /\ ~StoredIs(newText)

LabelCarries(m) == errorShown /\ errorText = m

(* C2 as stated: after a click rejected for an empty field, a mismatched
   confirmation, a wrong passcode or a rate-limited retry, the error label is
   visible and carries a message. *)
C2_EveryRejectionLabelled ==
    (IsClick(last, log)
        /\ (EmptyRejected \/ DifferRejected \/ FloodRejected \/ WrongRejected))
    => (errorShown /\ errorText # "lng_language_name")

\* what a step must satisfy for C2 as amended
C2_Step ==
    IsClick(last', log') =>
        /\ DifferRejected' => LabelCarries("lng_passcode_differ")'
        /\ FloodRejected' => LabelCarries("lng_flood_error")'
        /\ WrongRejected' => LabelCarries("lng_passcode_wrong")'
        /\ EmptyRejected' =>
              /\ errorShown' = errorShown
              /\ errorText' = errorText
              /\ IF newText = <<>>
                 THEN focus' = "new" /\ Fired(log', "newPasscode.showError")
                 ELSE focus' = "reenter"
                      /\ Fired(log', "reenterPasscode.showError")

(* C2 amended: a click rejected for a mismatched confirmation, a wrong
   passcode or a rate-limited retry leaves the error label visible with the
   message of that reason; a click rejected for an empty new-passcode or
   confirmation field only highlights and focuses that field and leaves the
   label's visibility and text as they were. *)
C2_RejectionsLabelledButEmpty == [][C2_Step]_vars

\* a label shown by a mismatch rejection has outlived an empty-field rejection
C2_Witness ==
    /\ IsClick(last, log)
    /\ EmptyRejected
    /\ newText = <<>>
    /\ Fired(log, "newPasscode.showError")
    /\ LabelCarries("lng_passcode_differ")

\* what a step must satisfy for C3
C3_Step ==
    (screen = "Check" /\ IsClick(last', log') /\ ~last'.canTry) =>
        /\ ~Fired(log', "checkPasscode")
        /\ badTries' = badTries
        /\ lastTry' = lastTry
        /\ passcode' = passcode
        /\ ~Navigated(log')
        /\ LabelCarries("lng_flood_error")'

(* C3: in Check mode a click made while passcodeCanTry() is false calls no
   checkPasscode, leaves the bad-try count and the last-try time as they were,
   fires no navigation event and shows the flood error, whatever the text. *)
C3_FloodBlocksCheck == [][C3_Step]_vars

\* the correct passcode was entered after a wrong try, and was refused
C3_Witness ==
    /\ screen = "Check"
    /\ last.op = "clicked"
    /\ ~last.canTry
    /\ newText # <<>>
    /\ StoredIs(newText)
    /\ badTries > 0
    /\ lastTry < now
    /\ LabelCarries("lng_flood_error")

\* what a step must satisfy for C4
C4_Step ==
    (screen = "Check" /\ IsClick(last', log') /\ last'.canTry) =>
        /\ Count(log', "checkPasscode") = 1
        /\ \A a \in ArgsOf(log', "checkPasscode") : fromUtf8(a) = newText
        /\ passcode' = passcode
        /\ IF StoredIs(newText)
           THEN /\ badTries' = 0
                /\ Count(log', "showOther(LocalPasscodeManage)") = 1
                /\ ~Fired(log', "showBack")
           ELSE /\ badTries' = badTries + 1
                /\ lastTry' = now
                /\ ~Navigated(log')

(* C4: in Check mode a click made while passcodeCanTry() is true calls
   checkPasscode once on the entered text; on success the bad-try count
   becomes 0 and showOther(LocalPasscodeManage) is fired; on failure the count
   grows by one, the last-try time becomes the current time and nothing is
   navigated.  The count always equals the number of wrong Check attempts
   since the last successful check or SetPasscode call, and is never
   negative. *)
C4_BadTriesCountWrongChecks ==
    /\ [](badTries = wrongSince /\ badTries >= 0)
    /\ [][C4_Step]_vars

\* a second wrong try in a row, made later than the screen was built
C4_Witness ==
    /\ screen = "Check"
    /\ IsClick(last, log)
    /\ last.canTry
    /\ ~StoredIs(newText)
    /\ badTries = 2
    /\ lastTry = now
    /\ now > 0

\* what a step must satisfy for C6
C6_Step ==
    /\ last'.op = "disableClicked" =>
          /\ confirmBox'
          /\ log' = << E("show(ConfirmBox)") >>
          /\ << passcode, badTries, lastTry >>' = << passcode, badTries, lastTry >>
    /\ <<>> \in ArgsOf(log', "setPasscode") =>
          /\ confirmBox
          /\ last'.op = "confirmed"
    /\ last'.op = "confirmed" =>
          /\ confirmBox /\ ~confirmBox'
          /\ log' = << E("cSetPasscodeBadTries(0)"), Ev("setPasscode", <<>>),
                       E("localPasscodeChanged"), E("close"), E("showBack") >>
          /\ badTries' = 0
          /\ passcode' = <<>>
          /\ lastTry' = lastTry
    /\ last'.op = "dismissed" =>
          /\ confirmBox /\ ~confirmBox'
          /\ log' = <<>>
          /\ << passcode, badTries, lastTry >>' = << passcode, badTries, lastTry >>

(* C6: the disable button of the Manage screen only opens the confirmation
   box; setPasscode with the empty passcode is called only by the confirmed
   box, which sets the bad-try count to 0, stores the empty passcode, sends
   localPasscodeChanged, closes the box and then fires showBack, in this
   order; dismissing the box changes neither the passcode nor the counters. *)
C6_RemovalOnlyOnConfirm == [][C6_Step]_vars

\* the box was confirmed on the Manage screen and the passcode is gone
C6_Witness ==
    /\ screen = "Manage"
    /\ last.op = "confirmed"
    /\ passcode = <<>>
    /\ ~confirmBox
    /\ Fired(log, "showBack")

\* what a step must satisfy for C8
ShowOthers == NavEvents \ {"showBack"}

C8_Step ==
    IsClick(last', log') =>
        /\ (screen = "Create" /\ Accepted) =>
              /\ Count(log', "showOther(LocalPasscodeManage)") = 1
              /\ ~Fired(log', "showBack")
              /\ ~Fired(log', "showOther(LocalPasscodeChange)")
        /\ (screen = "Change" /\ Accepted) =>
              /\ Count(log', "showBack") = 1
              /\ \A e \in ShowOthers : ~Fired(log', e)
        /\ (screen = "Check" /\ last'.canTry /\ StoredIs(newText)) =>
              /\ Count(log', "showOther(LocalPasscodeManage)") = 1
              /\ ~Fired(log', "showBack")
              /\ ~Fired(log', "setPasscode")
        /\ screen \in {"Create", "Change"} =>
              \A e \in NavEvents : After(log', "setPasscode", e)

(* C8: an accepted Create click fires showOther(LocalPasscodeManage) once and
   no showBack; an accepted Change click fires showBack once and no showOther;
   a successful Check fires showOther(LocalPasscodeManage) once and calls no
   setPasscode; in Create and Change mode a navigation event is fired only
   after setPasscode was called in the same click. *)
C8_NavigationFollowsMode == [][C8_Step]_vars

\* an accepted Change click has fired showBack
C8_Witness ==
    /\ screen = "Change"
    /\ IsClick(last, log)
    /\ Fired(log, "setPasscode")
    /\ Fired(log, "showBack")

\* what a step must satisfy for C9
C9_Step ==
    last'.op = "submitted" =>
        /\ Fired(log', "button.clicked") <=> (screen = "Check" \/ focus = "reenter")
        /\ ~(screen = "Check" \/ focus = "reenter") =>
              /\ focus' = "reenter"
              /\ log' = <<>>
              /\ << errorShown, errorText, passcode, badTries, lastTry >>'
                    = << errorShown, errorText, passcode, badTries, lastTry >>
        /\ (screen \in {"Create", "Change"} /\ last'.field = "new") =>
              /\ ~Fired(log', "setPasscode")
              /\ passcode' = passcode

(* C9: a submit on an input field clicks the button exactly when there is no
   confirmation field or the confirmation field has focus; otherwise it only
   moves focus to the confirmation field: no validation, no checkPasscode, no
   setPasscode, no navigation.  A submit from the first field of Create and
   Change mode never sets the passcode. *)
C9_SubmitClicksFromLastField == [][C9_Step]_vars

\* a submit from the confirmation field has set the passcode
C9_Witness ==
    /\ screen = "Create"
    /\ last.op = "submitted"
    /\ last.field = "reenter"
    /\ Fired(log, "button.clicked")
    /\ Fired(log, "setPasscode")

\* what a step must satisfy for C10
C10_Step ==
    /\ (~errorShown /\ errorShown') =>
          /\ IsClick(last', log')
          /\ ~Fired(log', "setPasscode")
          /\ ~Navigated(log')
    /\ (screen \in {"Create", "Change"} /\ reenterText' # reenterText) => ~errorShown'
    /\ (screen = "Check" /\ newText' # newText) => ~errorShown'

(* C10: the error label starts hidden, becomes visible only in a rejected
   click, and is hidden whenever the text of the field it is attached to
   changes: the confirmation field in Create and Change mode, the single
   field in Check mode. *)
C10_LabelHiddenUntilRejected ==
    /\ [](last.op = "setupContent" => ~errorShown)
    /\ [][C10_Step]_vars

\* a shown label was hidden by an edit of the confirmation field
C10_Witness ==
    /\ screen = "Create"
    /\ ~errorShown
    /\ errorText = "lng_passcode_differ"
    /\ reenterText # <<>>
    /\ reenterText = newText

\* what a state and a step must satisfy for C5
C5_State ==
    /\ timerOn <=> screen \in {"Manage", "Change"}
    /\ timerOn => (now <= timerNext /\ timerNext <= now + 60000)
    /\ (timerOn /\ last.op \in {"setupContent", "timer"}) => timerNext = now + 60000
    /\ last.op = "timer" =>
          /\ screen \notin {"Create", "Check"}
          /\ Fired(log, "showBack") <=> (now - lastNonIdleTime >= 600000)
          /\ Len(log) <= 1

C5_Step ==
    /\ last'.op = "timer" => (now = timerNext /\ now' = now)
    /\ (timerOn /\ timerOn' /\ timerNext' # timerNext) =>
          last'.op \in {"setupContent", "timer"}

(* C5: the auto-close timer ticks every 60 seconds and a tick fires showBack
   exactly when now minus the last non-idle time is at least 10 minutes; the
   timer runs on the Manage screen and on the Change screen only, so no timer
   fires showBack on the Create and Check screens. *)
C5_TimerClosesIdleScreens == []C5_State /\ [][C5_Step]_vars

\* a tick on the Change screen exactly 10 minutes after the last input
C5_Witness ==
    /\ screen = "Change"
    /\ last.op = "timer"
    /\ lastNonIdleTime > 0
    /\ now - lastNonIdleTime = 600000
    /\ Fired(log, "showBack")

\* what a step must satisfy for C7
C7_Computed ==
    LET h == autoLock \div 3600
        m == (autoLock - h * 3600) \div 60
    IN  /\ (h # 0 /\ m # 0) =>
              /\ autolockLabel.form = "lng_passcode_autolock_hours_minutes"
              /\ autolockLabel.hours = QStringNumber(h)
              /\ autolockLabel.minutes = QStringNumber(m)
        /\ (h = 0 /\ m # 0) =>
              /\ autolockLabel.form = "lng_minutes"
              /\ autolockLabel.minutes = << m >>
        /\ m = 0 =>
              /\ autolockLabel.form = "lng_hours"
              /\ autolockLabel.hours = << h >>
        /\ autoLock < 60 => autolockLabel.hours = << 0 >>

C7_Step ==
    /\ (screen' = "Manage" /\ last'.op \in {"setupContent", "autoLockBoxClosing"})
          => C7_Computed'
    /\ autolockLabel' # autolockLabel =>
          last'.op \in {"setupContent", "autoLockBoxClosing"}

(* C7: the auto-lock label is computed from autoLock a as hours = a div 3600
   and minutes = (a - hours*3600) div 60: the hours-and-minutes form when both
   are non-zero, the minutes form when only minutes is non-zero, the hours
   form otherwise, so that a below 60 shows 0 hours.  It is computed when the
   Manage screen is built and when an AutoLockBox opened from it closes, and
   at no other time. *)
C7_AutolockLabel == [][C7_Step]_vars

\* the box closed on 12 hours 30 minutes
C7_Witness ==
    /\ screen = "Manage"
    /\ last.op = "autoLockBoxClosing"
    /\ autoLock = 45000
    /\ autolockLabel = [form |-> "lng_passcode_autolock_hours_minutes",
                        hours |-> << 1, 2 >>, minutes |-> << 3, 0 >>]

====
